---- MODULE Spec2Model ----
(***************************************************************************)
(* Model of .scripts/readme.py, the dotfiles documentation viewer.         *)
(*                                                                         *)
(* Text is modelled as a sequence of one-character strings, so that        *)
(* prefix tests, splitting, stripping and replacing are computed the way   *)
(* the Python string methods compute them.  A path is a record             *)
(* [dir, name]; the filesystem is the set of existing directories plus,    *)
(* per directory, the set of names it contains.                            *)
(***************************************************************************)
EXTENDS Integers, Sequences, FiniteSets

VARIABLES
    args,          \* argparse namespace: file, aliases, format, dir, no_pager
    environ,       \* os.environ: DOTFILES_DIR
    fsDirs,        \* directories that exist
    fsFiles,       \* paths [dir, name] of the files that exist
    pc,            \* position of the run
    dotfiles_dir,  \* main's dotfiles_dir
    files_to_show, \* main's files_to_show
    output_parts,  \* main's output_parts
    pending,       \* content handed to display_with_pager
    reads,         \* every read_file call so far: [path, result]
    discovered,    \* directories find_doc_files was called on
    stdout,        \* every print() so far
    pagerCalls,    \* every subprocess.run so far
    exitCode,      \* process exit status once the run has ended
    fnIn,          \* argument of a pure function under check
    fnOut          \* its result

vars == <<args, environ, fsDirs, fsFiles, pc, dotfiles_dir, files_to_show,
          output_parts, pending, reads, discovered, stdout, pagerCalls,
          exitCode, fnIn, fnOut>>

None == "None"

----------------------------------------------------------------------------
(* Bounds                                                                  *)

\* directories (other than the cwd) plus files present in the filesystem
MaxEntries == 3
\* entries in the directory handed to find_doc_files on its own
MaxDirFiles == 3
\* characters of the content handed to format_html on its own
MaxContentLen == 3
\* characters following "alias " / "# " in a .bash_aliases line
MaxLineLen == 5

----------------------------------------------------------------------------
(* Characters and strings                                                  *)

\* The characters the model uses, in code point order (str comparison in
\* Python is by code point).
AsciiOrder ==
    <<"\n", " ", "\"", "#", "&", "'", ".", ";", "<", "=", ">",
      "A", "B", "C", "D", "E", "F", "G", "H", "I", "J", "K", "L", "M",
      "N", "O", "P", "Q", "R", "S", "T", "U", "V", "W", "X", "Y", "Z", "_",
      "a", "b", "c", "d", "e", "f", "g", "h", "i", "j", "k", "l", "m",
      "n", "o", "p", "q", "r", "s", "t", "u", "v", "w", "x", "y", "z">>

Ord(c) == CHOOSE i \in 1..Len(AsciiOrder) : AsciiOrder[i] = c

UpperCase == <<"A", "B", "C", "D", "E", "F", "G", "H", "I", "J", "K", "L", "M",
               "N", "O", "P", "Q", "R", "S", "T", "U", "V", "W", "X", "Y", "Z">>
LowerCase == <<"a", "b", "c", "d", "e", "f", "g", "h", "i", "j", "k", "l", "m",
               "n", "o", "p", "q", "r", "s", "t", "u", "v", "w", "x", "y", "z">>

\* str.upper()
upper(s) ==
    [i \in 1..Len(s) |->
        IF \E k \in 1..26 : LowerCase[k] = s[i]
        THEN UpperCase[CHOOSE k \in 1..26 : LowerCase[k] = s[i]]
        ELSE s[i]]

\* str.startswith(p)
startswith(s, p) == Len(s) >= Len(p) /\ SubSeq(s, 1, Len(p)) = p

\* a < b on str: lexicographic by code point, a proper prefix is smaller
StrLess(a, b) ==
    \E i \in 1..(Len(b)) :
        /\ i <= Len(a) + 1
        /\ SubSeq(a, 1, i - 1) = SubSeq(b, 1, i - 1)
        /\ \/ i = Len(a) + 1
           \/ (i <= Len(a) /\ Ord(a[i]) < Ord(b[i]))

\* File names
README_md == <<"R", "E", "A", "D", "M", "E", ".", "m", "d">>
README_noext == <<"R", "E", "A", "D", "M", "E">>
README_tar_gz == <<"R", "E", "A", "D", "M", "E", ".", "t", "a", "r", ".", "g", "z">>
README_txt == <<"R", "E", "A", "D", "M", "E", ".", "t", "x", "t">>
INSTALL_txt == <<"I", "N", "S", "T", "A", "L", "L", ".", "t", "x", "t">>
CHEATSHEET_md == <<"C", "H", "E", "A", "T", "S", "H", "E", "E", "T", ".", "m", "d">>
QUICKSTART_md == <<"Q", "U", "I", "C", "K", "S", "T", "A", "R", "T", ".", "m", "d">>
SETUP_sh == <<"S", "E", "T", "U", "P", ".", "s", "h">>
CONFIG_md == <<"C", "O", "N", "F", "I", "G", ".", "m", "d">>
USAGE_md == <<"U", "S", "A", "G", "E", ".", "m", "d">>
GETTING_STARTED_md == <<"G", "E", "T", "T", "I", "N", "G", "_", "S", "T", "A", "R", "T", "E", "D", ".", "m", "d">>
ABC_md == <<"A", "B", "C", ".", "m", "d">>
bash_aliases == <<".", "b", "a", "s", "h", "_", "a", "l", "i", "a", "s", "e", "s">>

----------------------------------------------------------------------------
(* pathlib                                                                 *)

\* Index of the last "." of a name, 0 when there is none (str.rfind + 1)
rfindDot(name) ==
    IF \E i \in 1..Len(name) : name[i] = "."
    THEN CHOOSE i \in 1..Len(name) :
            name[i] = "." /\ \A j \in (i + 1)..Len(name) : name[j] # "."
    ELSE 0

\* PurePath.stem: the name without its last suffix; a leading or a trailing
\* dot starts no suffix
stem(name) ==
    LET i == rfindDot(name)
    IN  IF 1 < i /\ i < Len(name) THEN SubSeq(name, 1, i - 1) ELSE name

\* Path.glob('PREFIX*') over the directory listing (scandir order)
glob(listing, prefix) == SelectSeq(listing, LAMBDA n : startswith(n, prefix))

\* The listings scandir may return for a directory holding the names S
Orderings(S) ==
    {s \in [1..Cardinality(S) -> S] :
        \A i, j \in 1..Cardinality(S) : i # j => s[i] # s[j]}

----------------------------------------------------------------------------
(* find_doc_files                                                          *)

\* a pattern list in which README.md* overlaps README*
doc_patterns_overlapping ==
    << <<"R", "E", "A", "D", "M", "E">>,
       <<"R", "E", "A", "D", "M", "E", ".", "m", "d">>,
       <<"I", "N", "S", "T", "A", "L", "L">>,
       <<"C", "O", "N", "F", "I", "G">>,
       <<"C", "H", "E", "A", "T", "S", "H", "E", "E", "T">>,
       <<"U", "S", "A", "G", "E">>,
       <<"Q", "U", "I", "C", "K", "S", "T", "A", "R", "T">>,
       <<"S", "E", "T", "U", "P">>,
       <<"G", "E", "T", "T", "I", "N", "G", "_", "S", "T", "A", "R", "T", "E", "D">> >>

doc_patterns ==
    << <<"R", "E", "A", "D", "M", "E">>,
       <<"I", "N", "S", "T", "A", "L", "L">>,
       <<"C", "O", "N", "F", "I", "G">>,
       <<"C", "H", "E", "A", "T", "S", "H", "E", "E", "T">>,
       <<"U", "S", "A", "G", "E">>,
       <<"Q", "U", "I", "C", "K", "S", "T", "A", "R", "T">>,
       <<"S", "E", "T", "U", "P">>,
       <<"G", "E", "T", "T", "I", "N", "G", "_", "S", "T", "A", "R", "T", "E", "D">> >>

priority_order ==
    << <<"R", "E", "A", "D", "M", "E">>,
       <<"I", "N", "S", "T", "A", "L", "L">>,
       <<"Q", "U", "I", "C", "K", "S", "T", "A", "R", "T">>,
       <<"S", "E", "T", "U", "P">>,
       <<"C", "O", "N", "F", "I", "G">>,
       <<"U", "S", "A", "G", "E">>,
       <<"C", "H", "E", "A", "T", "S", "H", "E", "E", "T">> >>

\* list.index, 0-based as in Python
index(list, x) == (CHOOSE i \in 1..Len(list) : list[i] = x) - 1

\* a key that ranks by the position in the pattern list's order
\* (CONFIG, CHEATSHEET, USAGE before QUICKSTART, SETUP)
sort_key_pattern_order(name) ==
    LET n == upper(stem(name))
    IN  IF \E i \in 1..7 : doc_patterns[i] = n
        THEN <<index(doc_patterns, n), name>>
        ELSE <<7, name>>

sort_key(name) ==
    LET n == upper(stem(name))
    IN  IF \E i \in 1..Len(priority_order) : priority_order[i] = n
        THEN <<index(priority_order, n), name>>
        ELSE <<Len(priority_order), name>>

\* tuple comparison of two sort keys
KeyLess(k1, k2) == k1[1] < k2[1] \/ (k1[1] = k2[1] /\ StrLess(k1[2], k2[2]))

\* insert x after every element whose key is not greater (stable)
RECURSIVE Insert(_, _)
Insert(sorted_, x) ==
    IF sorted_ = <<>> THEN <<x>>
    ELSE IF KeyLess(sort_key(x), sort_key(Head(sorted_)))
         THEN <<x>> \o sorted_
         ELSE <<Head(sorted_)>> \o Insert(Tail(sorted_), x)

\* sorted(files, key=sort_key)
RECURSIVE sorted(_)
sorted(files) ==
    IF files = <<>> THEN <<>>
    ELSE Insert(sorted(SubSeq(files, 1, Len(files) - 1)), files[Len(files)])

\* files.extend(directory.glob(pattern)) for each pattern, in order
RECURSIVE extendAll(_, _)
extendAll(listing, patterns) ==
    IF patterns = <<>> THEN <<>>
    ELSE glob(listing, Head(patterns)) \o extendAll(listing, Tail(patterns))

find_doc_files(listing) == sorted(extendAll(listing, doc_patterns))

----------------------------------------------------------------------------
(* The filesystem and find_dotfiles_dir                                    *)

HomePublic == "~/.dotfiles-public"
HomeDot == "~/.dotfiles"
Cwd == "cwd"
EnvDir == "/env"      \* the value DOTFILES_DIR has when it is set
ArgDir == "/arg"      \* the value of --dir when it is given

Dirs == {HomePublic, HomeDot, Cwd, EnvDir, ArgDir}
MainNames == {README_md, INSTALL_txt, bash_aliases}
AllPaths == [dir : Dirs, name : MainNames]

\* Path.exists() of a directory and of a file in a directory
dir_exists(d) == d \in fsDirs
file_exists(path) == path \in fsFiles

\* the names a directory holds
names_in(d) == {p.name : p \in {q \in fsFiles : q.dir = d}}

\* any(candidate.glob('README*'))
any_readme(d) == \E n \in names_in(d) : startswith(n, <<"R", "E", "A", "D", "M", "E">>)

\* the two home directories tried in the other order
candidates_swapped == <<HomeDot, HomePublic, Cwd>>

candidates == <<HomePublic, HomeDot, Cwd>>

find_dotfiles_dir ==
    IF environ.DOTFILES_DIR # None /\ dir_exists(environ.DOTFILES_DIR)
    THEN environ.DOTFILES_DIR
    ELSE LET hits == {i \in 1..Len(candidates) :
                        dir_exists(candidates[i]) /\ any_readme(candidates[i])}
         IN  IF hits # {}
             THEN candidates[CHOOSE i \in hits : \A j \in hits : i <= j]
             ELSE Cwd

----------------------------------------------------------------------------
(* read_file, the formatters, get_aliases, display_with_pager              *)

\* What open(..., encoding='utf-8') + read() can do, and what the retry
\* with latin1 can do
FirstOpen == {"ok", "UnicodeDecodeError", "OSError"}
SecondOpen == {"ok", "OSError"}
\* the retry happens only after a decode failure
SecondOpenAfter(first) == IF first = "UnicodeDecodeError" THEN SecondOpen ELSE {None}

ErrorPrefix == "Error reading file: "

\* read_file: a call either returns a value or raises
read_file(path, first, second) ==
    IF first = "ok"
    THEN [tag |-> "return", value |-> [prefix |-> "", body |-> "utf-8", of |-> path]]
    ELSE IF first = "UnicodeDecodeError"
    THEN IF second = "ok"
         THEN [tag |-> "return", value |-> [prefix |-> "", body |-> "latin1", of |-> path]]
         ELSE [tag |-> "return", value |-> [prefix |-> ErrorPrefix, body |-> second, of |-> path]]
    ELSE [tag |-> "return", value |-> [prefix |-> ErrorPrefix, body |-> first, of |-> path]]

Formats == {"terminal", "html", "text"}

\* the block main appends to output_parts for one file
format_block(format, content, path) ==
    IF format = "html"
    THEN [formatter |-> "format_html", name |-> path.name, content |-> content]
    ELSE IF format = "text"
    THEN [formatter |-> "text", name |-> path.name, content |-> content]
    ELSE [formatter |-> "format_terminal", name |-> path.name, content |-> content]

\* get_aliases: the report and the read_file calls it made
get_aliases(first, second) ==
    LET aliases_file == [dir |-> find_dotfiles_dir, name |-> bash_aliases]
        r == read_file(aliases_file, first, second)
    IN  IF ~file_exists(aliases_file)
        THEN [tag |-> "return", value |-> <<"No .bash_aliases file found.">>, reads |-> <<>>]
        ELSE IF r.tag = "raise"
        THEN [tag |-> "raise", value |-> <<>>, reads |-> <<[path |-> aliases_file, first |-> first,
                                                      second |-> second, result |-> r]>>]
        ELSE [tag |-> "return", value |-> <<"Available Aliases:", r.value>>,
              reads |-> <<[path |-> aliases_file, first |-> first,
                                                      second |-> second, result |-> r]>>]

\* PAGER: unset, the default's name, another program, set but empty
PagerEnv == {None, "less", "more", ""}
\* subprocess.run(..., check=True): the pager ran and exited 0, exited with
\* a failure status, was not found, or could not be executed
PagerOutcomes == {"ok", "CalledProcessError", "FileNotFoundError", "PermissionError"}

\* display_with_pager catching CalledProcessError only
display_with_pager_narrow(content, pagerEnv, outcome) ==
    LET pager == IF pagerEnv = None THEN "less" ELSE pagerEnv
        argv == IF pager = "less" THEN <<pager, "-R", "-F", "-X">> ELSE <<pager>>
    IN  IF outcome = "ok"
        THEN [tag |-> "return", argv |-> argv, printed |-> <<>>]
        ELSE IF outcome = "CalledProcessError"
        THEN [tag |-> "return", argv |-> argv, printed |-> <<content>>]
        ELSE [tag |-> "raise", argv |-> argv, printed |-> <<>>]

\* display_with_pager: the subprocess call, what it printed, how it ended;
\* an exception it does not catch leaves it and main (traceback, status 1)
display_with_pager(content, pagerEnv, outcome) ==
    LET pager == IF pagerEnv = None THEN "less" ELSE pagerEnv
        argv == IF pager = "less" THEN <<pager, "-R", "-F", "-X">> ELSE <<pager>>
    IN  IF outcome = "ok"
        THEN [tag |-> "return", argv |-> argv, printed |-> <<>>]
        ELSE IF outcome \in {"CalledProcessError", "FileNotFoundError"}
        THEN [tag |-> "return", argv |-> argv, printed |-> <<content>>]
        ELSE [tag |-> "raise", argv |-> argv, printed |-> <<>>]

----------------------------------------------------------------------------
(* main                                                                    *)

PureIdle == fnIn = None /\ fnOut = None

\* the subsets of S with at most k elements
RECURSIVE SubsetsUpTo(_, _)
SubsetsUpTo(S, k) ==
    IF k = 0 THEN {{}}
    ELSE LET smaller == SubsetsUpTo(S, k - 1)
         IN  smaller \cup {T \cup {x} : T \in smaller, x \in S}

Init ==
    /\ args \in [file : {None, README_md}, aliases : BOOLEAN, format : Formats,
                 dir : {None, ArgDir}, no_pager : BOOLEAN]
    /\ environ \in [DOTFILES_DIR : {None, EnvDir}]
    /\ fsDirs \in {S \cup {Cwd} : S \in SubsetsUpTo(Dirs \ {Cwd}, MaxEntries)}
    /\ fsFiles \in SubsetsUpTo({p \in AllPaths : p.dir \in fsDirs},
                              MaxEntries - (Cardinality(fsDirs) - 1))
    /\ pc = "start"
    /\ dotfiles_dir = None
    /\ files_to_show = <<>>
    /\ output_parts = <<>>
    /\ pending = None
    /\ reads = <<>>
    /\ discovered = {}
    /\ stdout = <<>>
    /\ pagerCalls = <<>>
    /\ exitCode = None
    /\ PureIdle

Inputs == <<args, environ, fsDirs, fsFiles, fnIn, fnOut>>

\* sys.exit(code) or falling off the end of main
Exit(code) == exitCode' = code /\ pc' = "done"

\* lines 239-243
ResolveDir ==
    /\ pc = "start"
    /\ dotfiles_dir' = IF args.dir # None THEN args.dir ELSE find_dotfiles_dir
    /\ pc' = "resolved"
    /\ UNCHANGED <<Inputs, files_to_show, output_parts, pending, reads,
                   discovered, stdout, pagerCalls, exitCode>>

\* lines 245-247
DirNotFound ==
    /\ pc = "resolved"
    /\ ~dir_exists(dotfiles_dir)
    /\ stdout' = Append(stdout, [kind |-> "error",
                                 text |-> <<"Error: Dotfiles directory not found: ", dotfiles_dir>>])
    /\ Exit(1)
    /\ UNCHANGED <<Inputs, dotfiles_dir, files_to_show, output_parts, pending,
                   reads, discovered, pagerCalls>>

\* lines 250-256
ShowAliases ==
    /\ pc = "resolved"
    /\ dir_exists(dotfiles_dir)
    /\ args.aliases
    /\ \E first \in FirstOpen : \E second \in SecondOpenAfter(first) :
         LET r == get_aliases(first, second)
         IN  /\ reads' = reads \o r.reads
             /\ IF r.tag = "raise"
                THEN Exit(1) /\ UNCHANGED <<stdout, pending>>
                ELSE IF args.no_pager \/ args.format # "terminal"
                THEN /\ stdout' = Append(stdout, [kind |-> "content", text |-> r.value])
                     /\ Exit(0)
                     /\ UNCHANGED pending
                ELSE /\ pending' = r.value
                     /\ pc' = "pager"
                     /\ UNCHANGED <<stdout, exitCode>>
    /\ UNCHANGED <<Inputs, dotfiles_dir, files_to_show, output_parts,
                   discovered, pagerCalls>>

\* lines 259-263
FileNotFound ==
    /\ pc = "resolved"
    /\ dir_exists(dotfiles_dir)
    /\ ~args.aliases
    /\ args.file # None
    /\ ~file_exists([dir |-> dotfiles_dir, name |-> args.file])
    /\ stdout' = Append(stdout, [kind |-> "error",
                                 text |-> <<"Error: File not found: ", dotfiles_dir, args.file>>])
    /\ Exit(1)
    /\ UNCHANGED <<Inputs, dotfiles_dir, files_to_show, output_parts, pending,
                   reads, discovered, pagerCalls>>

\* lines 259-264
SelectFile ==
    /\ pc = "resolved"
    /\ dir_exists(dotfiles_dir)
    /\ ~args.aliases
    /\ args.file # None
    /\ file_exists([dir |-> dotfiles_dir, name |-> args.file])
    /\ files_to_show' = <<[dir |-> dotfiles_dir, name |-> args.file]>>
    /\ pc' = "read"
    /\ UNCHANGED <<Inputs, dotfiles_dir, output_parts, pending, reads,
                   discovered, stdout, pagerCalls, exitCode>>

\* lines 265-269, the list is not empty
DiscoverFiles ==
    /\ pc = "resolved"
    /\ dir_exists(dotfiles_dir)
    /\ ~args.aliases
    /\ args.file = None
    /\ \E listing \in Orderings(names_in(dotfiles_dir)) :
         /\ find_doc_files(listing) # <<>>
         /\ files_to_show' = [i \in 1..Len(find_doc_files(listing)) |->
                                [dir |-> dotfiles_dir, name |-> find_doc_files(listing)[i]]]
    /\ discovered' = discovered \cup {dotfiles_dir}
    /\ pc' = "read"
    /\ UNCHANGED <<Inputs, dotfiles_dir, output_parts, pending, reads,
                   stdout, pagerCalls, exitCode>>

\* lines 265-269, the list is empty
NoDocFiles ==
    /\ pc = "resolved"
    /\ dir_exists(dotfiles_dir)
    /\ ~args.aliases
    /\ args.file = None
    /\ \E listing \in Orderings(names_in(dotfiles_dir)) :
         find_doc_files(listing) = <<>>
    /\ discovered' = discovered \cup {dotfiles_dir}
    /\ stdout' = Append(stdout, [kind |-> "error",
                                 text |-> <<"No documentation files found in ", dotfiles_dir>>])
    /\ Exit(1)
    /\ UNCHANGED <<Inputs, dotfiles_dir, files_to_show, output_parts, pending,
                   reads, pagerCalls>>

\* lines 274-282, one iteration of the loop
ReadAndFormat ==
    /\ pc = "read"
    /\ Len(output_parts) < Len(files_to_show)
    /\ \E first \in FirstOpen : \E second \in SecondOpenAfter(first) :
         LET file_path == files_to_show[Len(output_parts) + 1]
             r == read_file(file_path, first, second)
         IN  /\ reads' = Append(reads, [path |-> file_path, first |-> first,
                                            second |-> second, result |-> r])
             /\ IF r.tag = "raise"
                THEN Exit(1) /\ UNCHANGED output_parts
                ELSE /\ output_parts' = Append(output_parts,
                                               format_block(args.format, r.value, file_path))
                     /\ UNCHANGED <<pc, exitCode>>
    /\ UNCHANGED <<Inputs, dotfiles_dir, files_to_show, pending, discovered,
                   stdout, pagerCalls>>

\* lines 285-292 with the pager used whenever the format is not html
Display_pager_unless_html ==
    /\ pc = "read"
    /\ Len(output_parts) = Len(files_to_show)
    /\ LET final_output == output_parts
       IN  IF args.format = "html"
           THEN /\ stdout' = Append(stdout, [kind |-> "content", text |-> final_output])
                /\ Exit(0)
                /\ UNCHANGED pending
           ELSE /\ pending' = final_output
                /\ pc' = "pager"
                /\ UNCHANGED <<stdout, exitCode>>
    /\ UNCHANGED <<Inputs, dotfiles_dir, files_to_show, output_parts, reads,
                   discovered, pagerCalls>>

\* lines 285-292
Display ==
    /\ pc = "read"
    /\ Len(output_parts) = Len(files_to_show)
    /\ LET final_output == output_parts
       IN  IF args.format = "html"
           THEN /\ stdout' = Append(stdout, [kind |-> "content", text |-> final_output])
                /\ Exit(0)
                /\ UNCHANGED pending
           ELSE IF args.no_pager \/ args.format # "terminal"
           THEN /\ stdout' = Append(stdout, [kind |-> "content", text |-> final_output])
                /\ Exit(0)
                /\ UNCHANGED pending
           ELSE /\ pending' = final_output
                /\ pc' = "pager"
                /\ UNCHANGED <<stdout, exitCode>>
    /\ UNCHANGED <<Inputs, dotfiles_dir, files_to_show, output_parts, reads,
                   discovered, pagerCalls>>

\* lines 204-216, called from line 255 or 292
RunPager ==
    /\ pc = "pager"
    /\ \E pagerEnv \in PagerEnv, outcome \in PagerOutcomes :
         LET r == display_with_pager(pending, pagerEnv, outcome)
         IN  /\ pagerCalls' = Append(pagerCalls, [argv |-> r.argv, input |-> pending,
                                                  outcome |-> outcome])
             /\ stdout' = stdout \o [i \in 1..Len(r.printed) |->
                                        [kind |-> "content", text |-> r.printed[i]]]
             /\ IF r.tag = "raise" THEN Exit(1) ELSE Exit(0)
    /\ UNCHANGED <<Inputs, dotfiles_dir, files_to_show, output_parts, pending,
                   reads, discovered>>

Next ==
    \/ ResolveDir
    \/ DirNotFound
    \/ ShowAliases
    \/ FileNotFound
    \/ SelectFile
    \/ DiscoverFiles
    \/ NoDocFiles
    \/ ReadAndFormat
    \/ Display
    \/ RunPager

Spec == Init /\ [][Next]_vars

----------------------------------------------------------------------------
(* find_dotfiles_dir on its own                                            *)

MainIdle ==
    /\ dotfiles_dir = None
    /\ files_to_show = <<>>
    /\ output_parts = <<>>
    /\ pending = None
    /\ reads = <<>>
    /\ discovered = {}
    /\ stdout = <<>>
    /\ pagerCalls = <<>>
    /\ exitCode = None

NoArgs == [file |-> None, aliases |-> FALSE, format |-> "terminal",
           dir |-> None, no_pager |-> FALSE]

MainVars == <<dotfiles_dir, files_to_show, output_parts, pending, reads,
              discovered, stdout, pagerCalls, exitCode>>

ResolveNames == {README_md, INSTALL_txt}

InitResolve ==
    /\ args = NoArgs
    /\ environ \in [DOTFILES_DIR : {None, EnvDir}]
    /\ fsDirs \in {S \cup {Cwd} : S \in SUBSET {HomePublic, HomeDot, EnvDir}}
    /\ fsFiles \in {P \in SUBSET [dir : {HomePublic, HomeDot, Cwd}, name : ResolveNames] :
                      \A p \in P : p.dir \in fsDirs}
    /\ pc = "resolve_input"
    /\ fnIn = None
    /\ fnOut = None
    /\ MainIdle

ApplyFindDotfilesDir ==
    /\ pc = "resolve_input"
    /\ fnOut' = find_dotfiles_dir
    /\ pc' = "resolve_done"
    /\ UNCHANGED <<args, environ, fsDirs, fsFiles, fnIn, MainVars>>

SpecResolve == InitResolve /\ [][ApplyFindDotfilesDir]_vars

----------------------------------------------------------------------------
(* find_doc_files on its own                                               *)

SortNames == {README_md, README_noext, README_tar_gz, README_txt, INSTALL_txt,
              CHEATSHEET_md, QUICKSTART_md, SETUP_sh, CONFIG_md, USAGE_md,
              GETTING_STARTED_md, ABC_md, bash_aliases}

NoFs ==
    /\ args = NoArgs
    /\ environ = [DOTFILES_DIR |-> None]
    /\ fsDirs = {Cwd}
    /\ fsFiles = {}

InitSort ==
    /\ NoFs
    /\ MainIdle
    /\ pc = "sort_input"
    /\ fnIn \in {S \in SUBSET SortNames : Cardinality(S) <= MaxDirFiles}
    /\ fnOut = None

ApplyFindDocFiles ==
    /\ pc = "sort_input"
    /\ \E listing \in Orderings(fnIn) : fnOut' = find_doc_files(listing)
    /\ pc' = "sort_done"
    /\ UNCHANGED <<args, environ, fsDirs, fsFiles, fnIn, MainVars>>

SpecSort == InitSort /\ [][ApplyFindDocFiles]_vars

----------------------------------------------------------------------------
(* format_html on its own                                                  *)

\* every string over an alphabet of at most n characters
StringsUpTo(alphabet, n) == UNION {[1..k -> alphabet] : k \in 0..n}

\* str.replace(old, new) for a one-character old
RECURSIVE replace(_, _, _)
replace(s, old, new) ==
    IF s = <<>> THEN <<>>
    ELSE (IF Head(s) = old THEN new ELSE <<Head(s)>>) \o replace(Tail(s), old, new)

\* str.lower()
lower(s) ==
    [i \in 1..Len(s) |->
        IF \E k \in 1..26 : UpperCase[k] = s[i]
        THEN LowerCase[CHOOSE k \in 1..26 : UpperCase[k] = s[i]]
        ELSE s[i]]

\* PurePath.suffix
suffix(name) ==
    LET i == rfindDot(name)
    IN  IF 1 < i /\ i < Len(name) THEN SubSeq(name, i, Len(name)) ELSE <<>>

\* the three replacements with '&' done last
escape_amp_last(content) ==
    replace(replace(replace(content, "<", <<"&", "l", "t", ";">>),
                    ">", <<"&", "g", "t", ";">>),
            "&", <<"&", "a", "m", "p", ";">>)

\* line 139
escape(content) ==
    replace(replace(replace(content, "&", <<"&", "a", "m", "p", ";">>),
                    "<", <<"&", "l", "t", ";">>),
            ">", <<"&", "g", "t", ";">>)

\* lines 135-141: html_content and the title of the document
format_html(content, name, markdown_available) ==
    IF markdown_available
       /\ lower(suffix(name)) \in {<<".", "m", "d">>,
                                   <<".", "m", "a", "r", "k", "d", "o", "w", "n">>}
    THEN [title |-> name, delegated |-> TRUE, html_content |-> content]
    ELSE [title |-> name, delegated |-> FALSE,
          html_content |-> <<"<", "p", "r", "e", ">">>
                           \o replace(escape(content), "\n", <<"<", "b", "r", ">", "\n">>)
                           \o <<"<", "/", "p", "r", "e", ">">>]

HtmlAlphabet == {"&", "<", ">", "a", ";", "\n"}

InitHtml ==
    /\ NoFs
    /\ MainIdle
    /\ pc = "html_input"
    /\ fnIn \in [content : StringsUpTo(HtmlAlphabet, MaxContentLen),
                 name : {README_md, INSTALL_txt},
                 markdown_available : BOOLEAN]
    /\ fnOut = None

ApplyFormatHtml ==
    /\ pc = "html_input"
    /\ fnOut' = format_html(fnIn.content, fnIn.name, fnIn.markdown_available)
    /\ pc' = "html_done"
    /\ UNCHANGED <<args, environ, fsDirs, fsFiles, fnIn, MainVars>>

SpecHtml == InitHtml /\ [][ApplyFormatHtml]_vars

----------------------------------------------------------------------------
(* The loop body of get_aliases on its own                                 *)

Whitespace == {" ", "\n"}
Quotes == {"'", "\""}

\* str.lstrip(chars) / str.rstrip(chars) / str.strip(chars)
RECURSIVE lstrip(_, _)
lstrip(s, chars) ==
    IF s # <<>> /\ Head(s) \in chars THEN lstrip(Tail(s), chars) ELSE s

RECURSIVE rstrip(_, _)
rstrip(s, chars) ==
    IF s # <<>> /\ s[Len(s)] \in chars THEN rstrip(SubSeq(s, 1, Len(s) - 1), chars) ELSE s

strip(s, chars) == rstrip(lstrip(s, chars), chars)

\* '=' in s
contains(s, c) == \E i \in 1..Len(s) : s[i] = c

\* s.split(c, 1) when c occurs in s
split1(s, c) ==
    LET i == CHOOSE k \in 1..Len(s) : s[k] = c /\ \A j \in 1..(k - 1) : s[j] # c
    IN  <<SubSeq(s, 1, i - 1), SubSeq(s, i + 1, Len(s))>>

alias_prefix == <<"a", "l", "i", "a", "s", " ">>

\* lines 180-199: what one line appends to output, and current_section after it
alias_line(raw, current_section) ==
    LET line == strip(raw, Whitespace)
    IN  IF startswith(line, <<"#", " ">>) /\ ~startswith(line, <<"#", "#">>)
        THEN LET section == strip(SubSeq(line, 3, Len(line)), Whitespace)
             IN  IF section # current_section
                 THEN [current_section |-> section,
                       appended |-> <<[kind |-> "section", text |-> section], [kind |-> "blank"]>>]
                 ELSE [current_section |-> current_section, appended |-> <<>>]
        ELSE IF startswith(line, alias_prefix)
        THEN LET alias_def == SubSeq(line, 7, Len(line))
             IN  IF contains(alias_def, "=")
                 THEN LET alias_name == split1(alias_def, "=")[1]
                          alias_cmd == strip(split1(alias_def, "=")[2], Quotes)
                      IN  [current_section |-> current_section,
                           appended |-> <<[kind |-> "alias",
                                           name |-> strip(alias_name, Whitespace),
                                           width |-> 15,
                                           cmd |-> alias_cmd]>>]
                 ELSE [current_section |-> current_section, appended |-> <<>>]
        ELSE [current_section |-> current_section, appended |-> <<>>]

LineAlphabet == {"'", "\"", "=", "a", " "}
LinePrefixes == {<<>>, alias_prefix, <<" ">> \o alias_prefix, <<"#", " ">>}

InitAlias ==
    /\ NoFs
    /\ MainIdle
    /\ pc = "alias_input"
    /\ fnIn \in {p \o r : p \in LinePrefixes, r \in StringsUpTo(LineAlphabet, MaxLineLen)}
    /\ fnOut = None

ApplyAliasLine ==
    /\ pc = "alias_input"
    /\ fnOut' = alias_line(fnIn, None)
    /\ pc' = "alias_done"
    /\ UNCHANGED <<args, environ, fsDirs, fsFiles, fnIn, MainVars>>

SpecAlias == InitAlias /\ [][ApplyAliasLine]_vars

----------------------------------------------------------------------------
(* Properties                                                              *)

\* the run ended
Done == pc = "done"

\* find_doc_files was called and returned the empty list
DiscoveryEmpty == dotfiles_dir \in discovered /\ files_to_show = <<>>

\* --file names a file that does not exist in the directory
NamedFileMissing ==
    args.file # None /\ ~file_exists([dir |-> dotfiles_dir, name |-> args.file])

\* C1: a finished run has exit code 1 exactly when the directory does not
\* exist, or (on the documentation path, which --aliases bypasses) --file
\* names a missing file or no --file is given and discovery returned
\* nothing; it has exit code 0 in every other case; a missing directory ends
\* the run before any discovery or read.
C1_ExitCodes ==
    Done =>
        /\ exitCode = IF \/ ~dir_exists(dotfiles_dir)
                         \/ (~args.aliases /\ NamedFileMissing)
                         \/ (~args.aliases /\ args.file = None /\ DiscoveryEmpty)
                      THEN 1 ELSE 0
        /\ ~dir_exists(dotfiles_dir) => (discovered = {} /\ reads = <<>>)

\* C2: with --dir D, every file the run reads and every directory it
\* searches is D or under D.
C2_DirOverridesResolver ==
    args.dir # None =>
        /\ \A i \in 1..Len(reads) : reads[i].path.dir = args.dir
        /\ discovered \subseteq {args.dir}

\* C3: find_dotfiles_dir returns DOTFILES_DIR if set and existing, else
\* ~/.dotfiles-public if it exists and holds a README*, else ~/.dotfiles under
\* the same condition, else the current working directory.
C3_ResolutionOrder ==
    pc = "resolve_done" =>
        fnOut =
            IF environ.DOTFILES_DIR # None /\ environ.DOTFILES_DIR \in fsDirs
            THEN environ.DOTFILES_DIR
            ELSE IF HomePublic \in fsDirs
                    /\ \E p \in fsFiles : p.dir = HomePublic /\ p.name = README_md
            THEN HomePublic
            ELSE IF HomeDot \in fsDirs
                    /\ \E p \in fsFiles : p.dir = HomeDot /\ p.name = README_md
            THEN HomeDot
            ELSE Cwd

\* both home directories qualify and DOTFILES_DIR names no existing
\* directory: the first one is returned
C3_Witness ==
    /\ pc = "resolve_done"
    /\ environ.DOTFILES_DIR = EnvDir
    /\ EnvDir \notin fsDirs
    /\ [dir |-> HomePublic, name |-> README_md] \in fsFiles
    /\ [dir |-> HomeDot, name |-> README_md] \in fsFiles
    /\ fnOut = HomePublic

\* the priority list as the claim gives it
ClaimPriority ==
    << <<"R", "E", "A", "D", "M", "E">>,
       <<"I", "N", "S", "T", "A", "L", "L">>,
       <<"Q", "U", "I", "C", "K", "S", "T", "A", "R", "T">>,
       <<"S", "E", "T", "U", "P">>,
       <<"C", "O", "N", "F", "I", "G">>,
       <<"U", "S", "A", "G", "E">>,
       <<"C", "H", "E", "A", "T", "S", "H", "E", "E", "T">> >>

ClaimIndex(name) ==
    LET base == upper(stem(name))
        at == {i \in 1..7 : ClaimPriority[i] = base}
    IN  IF at = {} THEN 7 ELSE (CHOOSE i \in at : TRUE) - 1

ClaimPatterns ==
    {<<"R", "E", "A", "D", "M", "E">>, <<"I", "N", "S", "T", "A", "L", "L">>,
     <<"C", "O", "N", "F", "I", "G">>, <<"C", "H", "E", "A", "T", "S", "H", "E", "E", "T">>,
     <<"U", "S", "A", "G", "E">>, <<"Q", "U", "I", "C", "K", "S", "T", "A", "R", "T">>,
     <<"S", "E", "T", "U", "P">>,
     <<"G", "E", "T", "T", "I", "N", "G", "_", "S", "T", "A", "R", "T", "E", "D">>}

\* C4: find_doc_files returns exactly the matching files, ordered by
\* (priority index, filename): a smaller index comes first, and on equal
\* indexes the smaller filename comes first.
C4_SortedByPriorityThenName ==
    pc = "sort_done" =>
        /\ {fnOut[i] : i \in 1..Len(fnOut)} =
               {n \in fnIn : \E q \in ClaimPatterns : startswith(n, q)}
        /\ \A i, j \in 1..Len(fnOut) :
               i < j =>
                   \/ ClaimIndex(fnOut[i]) < ClaimIndex(fnOut[j])
                   \/ /\ ClaimIndex(fnOut[i]) = ClaimIndex(fnOut[j])
                      /\ (fnOut[i] = fnOut[j] \/ StrLess(fnOut[i], fnOut[j]))

\* README.md, INSTALL.txt, CHEATSHEET.md come back in that order
C4_Witness ==
    /\ pc = "sort_done"
    /\ fnIn = {README_md, INSTALL_txt, CHEATSHEET_md}
    /\ fnOut = <<README_md, INSTALL_txt, CHEATSHEET_md>>

\* C5: the pager is invoked only when the format is terminal and --no-pager
\* is not set; a run that completes with --no-pager or a format of html or
\* text starts no subprocess and writes the rendered content to standard
\* output exactly once.
C5_PagerOnlyForTerminal ==
    /\ pagerCalls # <<>> => (args.format = "terminal" /\ ~args.no_pager)
    /\ (Done /\ exitCode = 0 /\ (args.no_pager \/ args.format # "terminal")) =>
           /\ pagerCalls = <<>>
           /\ Len(stdout) = 1
           /\ stdout[1].kind = "content"
           /\ ~args.aliases => stdout[1].text = output_parts

\* a terminal run of two files with --no-pager printed them once
C5_Witness ==
    /\ Done
    /\ args.no_pager
    /\ args.format = "terminal"
    /\ Len(output_parts) = 2
    /\ pagerCalls = <<>>
    /\ stdout = <<[kind |-> "content", text |-> output_parts]>>

\* C6: after a pager call that found no program or ended in failure, the
\* content is on standard output and the run has exit code 0; after a pager
\* call that succeeded nothing is on standard output.
C6_PagerFallback ==
    (Done /\ pagerCalls # <<>>) =>
        /\ Len(pagerCalls) = 1
        /\ pagerCalls[1].outcome \in {"CalledProcessError", "FileNotFoundError"} =>
               /\ stdout = <<[kind |-> "content", text |-> pagerCalls[1].input]>>
               /\ exitCode = 0
        /\ pagerCalls[1].outcome = "ok" => stdout = <<>>

\* the pager program was not found and the content was printed instead
C6_Witness ==
    /\ Done
    /\ Len(pagerCalls) = 1
    /\ pagerCalls[1].outcome = "FileNotFoundError"
    /\ stdout = <<[kind |-> "content", text |-> pagerCalls[1].input]>>
    /\ exitCode = 0

\* a read_file call whose open() failed
ReadFailed(r) == r.first = "OSError" \/ r.second = "OSError"

\* C7: every read_file call returns; after a decode failure it returns the
\* latin1 text, after any other failure a string starting with "Error reading
\* file:"; a finished run over files_to_show has formatted every file, in
\* order, with the content read for it, and when a read failed its exit code
\* is 0.
C7_ReadErrorsAreInline ==
    /\ \A i \in 1..Len(reads) :
           /\ reads[i].result.tag = "return"
           /\ (reads[i].first = "UnicodeDecodeError" /\ reads[i].second = "ok") =>
                  (reads[i].result.value.prefix = "" /\ reads[i].result.value.body = "latin1")
           /\ ReadFailed(reads[i]) => reads[i].result.value.prefix = "Error reading file: "
    /\ (Done /\ files_to_show # <<>>) =>
           /\ Len(output_parts) = Len(files_to_show)
           /\ Len(reads) = Len(files_to_show)
           /\ \A i \in 1..Len(files_to_show) :
                  /\ reads[i].path = files_to_show[i]
                  /\ output_parts[i].name = files_to_show[i].name
                  /\ output_parts[i].content = reads[i].result.value
           /\ (\E i \in 1..Len(reads) : ReadFailed(reads[i])) => exitCode = 0

\* what one input character becomes
EscapedChar(c) ==
    IF c = "&" THEN <<"&", "a", "m", "p", ";">>
    ELSE IF c = "<" THEN <<"&", "l", "t", ";">>
    ELSE IF c = ">" THEN <<"&", "g", "t", ";">>
    ELSE IF c = "\n" THEN <<"<", "b", "r", ">", "\n">>
    ELSE <<c>>

RECURSIVE Charwise(_)
Charwise(s) == IF s = <<>> THEN <<>> ELSE EscapedChar(Head(s)) \o Charwise(Tail(s))

\* C8: on the non-delegating path the content inside <pre> is the input with
\* every '&', '<', '>' replaced once by '&amp;', '&lt;', '&gt;' (and every
\* newline by '<br>' + newline), nothing escaped twice.
C8_EscapedExactlyOnce ==
    (pc = "html_done"
        /\ (~fnIn.markdown_available
              \/ lower(suffix(fnIn.name)) \notin {<<".", "m", "d">>,
                                                  <<".", "m", "a", "r", "k", "d", "o", "w", "n">>})) =>
        fnOut.html_content =
            <<"<", "p", "r", "e", ">">> \o Charwise(fnIn.content) \o <<"<", "/", "p", "r", "e", ">">>

\* "<&>" in README.md without the markdown package
C8_Witness ==
    /\ pc = "html_done"
    /\ fnIn = [content |-> <<"<", "&", ">">>, name |-> README_md, markdown_available |-> FALSE]
    /\ fnOut.html_content =
           <<"<", "p", "r", "e", ">",
             "&", "l", "t", ";", "&", "a", "m", "p", ";", "&", "g", "t", ";",
             "<", "/", "p", "r", "e", ">">>

\* one layer of surrounding quotes removed: a matching pair
StripPair(v) ==
    IF Len(v) >= 2 /\ v[1] \in Quotes /\ v[Len(v)] = v[1]
    THEN SubSeq(v, 2, Len(v) - 1) ELSE v

\* one layer of surrounding quotes removed: at most one quote at each end
StripOneEach(v) ==
    LET w == IF v # <<>> /\ v[1] \in Quotes THEN Tail(v) ELSE v
    IN  IF w # <<>> /\ w[Len(w)] \in Quotes THEN SubSeq(w, 1, Len(w) - 1) ELSE w

\* C9: a line starting with 'alias ' yields, when its remainder holds an '=',
\* one entry whose name is the trimmed part before the first '=' and whose
\* command is the part after it less one layer of surrounding quotes, and
\* yields nothing otherwise.
C9_OneQuoteLayerStripped ==
    (pc = "alias_done" /\ startswith(strip(fnIn, Whitespace), alias_prefix)) =>
        LET rest == SubSeq(strip(fnIn, Whitespace), 7, Len(strip(fnIn, Whitespace)))
        IN  IF contains(rest, "=")
            THEN /\ Len(fnOut.appended) = 1
                 /\ fnOut.appended[1].name = strip(split1(rest, "=")[1], Whitespace)
                 /\ fnOut.appended[1].cmd \in {StripPair(split1(rest, "=")[2]),
                                               StripOneEach(split1(rest, "=")[2])}
            ELSE fnOut.appended = <<>>

\* C10: the list find_doc_files returns holds no file twice.
C10_NoDuplicates ==
    pc = "sort_done" =>
        \A i, j \in 1..Len(fnOut) : i # j => fnOut[i] # fnOut[j]

\* three matching files, two of them starting with README, each returned once
C10_Witness ==
    /\ pc = "sort_done"
    /\ fnIn = {README_md, README_tar_gz, GETTING_STARTED_md}
    /\ Len(fnOut) = 3

====
